---- MODULE Spec2Model ----
(***************************************************************************)
(* Model of src/main.py (GLiNER proof of concept).                         *)
(*                                                                         *)
(* Two functions carry the logic:                                          *)
(*   process_long_text           window cutting, one model call per        *)
(*                               window, merge with duplicate suppression  *)
(*   highlight_entities_in_text  occurrence search, longest-at-offset      *)
(*                               choice, emission of text fragments        *)
(* together with the grouping of process_example and the per-label counts  *)
(* of main.  Each function is checked under its own specification, whose   *)
(* initial states draw the function's arguments from bounded sets:         *)
(*   ExtractSpec    process_long_text                                      *)
(*   CutFairSpec    process_long_text up to the end of window cutting,     *)
(*                  with weak fairness of its steps                        *)
(*   RenderSpec     highlight_entities_in_text, grouping, counting         *)
(*                                                                         *)
(* A Python string is a sequence of one-character strings; Python offsets  *)
(* are 0-based and half-open, as in the source.  The model (GLiNER) is a   *)
(* black box: each predict_entities call returns an arbitrary list of      *)
(* entities, chosen nondeterministically.                                  *)
(***************************************************************************)
EXTENDS Integers, Sequences, FiniteSets, TLC

\* ---------------------------------------------------------------- bounds
MaxTextLen == 4      \* longest text given to process_long_text
MaxChunk == 2        \* largest chunk_size
MaxEnts == 2         \* longest list one predict_entities call returns
MaxRenderLen == 4    \* longest text given to highlight_entities_in_text

Labels == {"person", "org"}

\* ------------------------------------------------------- Python helpers
Min(a, b) == IF a < b THEN a ELSE b

\* s[lo:hi] for 0 <= lo, with Python's clamping of hi
Slice(s, lo, hi) == SubSeq(s, lo + 1, Min(hi, Len(s)))

\* s.rfind(ch, lo, hi): highest 0-based index in [lo, hi) holding ch, else -1
RFind(s, ch, lo, hi) ==
    LET hits == {n \in lo..(Min(hi, Len(s)) - 1) : s[n + 1] = ch}
    IN  IF hits = {} THEN -1 ELSE CHOOSE n \in hits : \A m \in hits : m <= n

SeqsUpTo(S, n) == UNION {[1..m -> S] : m \in 0..n}

Range(s) == {s[n] : n \in 1..Len(s)}

\* process_long_text reads its text only through len(), slicing and one
\* rfind(" "): the texts drawn for it are one per length, with a different
\* letter at every offset within a window's reach and a space at every third.
Letters == <<"a", "b", "c", "d", "e", "f", "g", "h">>
SampleChar(j) ==
    IF j % 3 = 0 THEN " " ELSE Letters[((j - 1) % Len(Letters)) + 1]
SampleText(n) == [j \in 1..n |-> SampleChar(j)]
LongTexts == {SampleText(n) : n \in 0..MaxTextLen}

\* surface texts the model may report while a text is being extracted
PredTexts == {<<"a">>, <<"a", "b">>}

\* what one predict_entities call may return for the candidate labels given
Predictions(labels) ==
    SeqsUpTo([text : PredTexts, label : labels], MaxEnts)

VARIABLES
    pc,            \* position in the function under check
    text,          \* the text argument
    \* ---- process_long_text
    entity_types,  \* the candidate labels argument
    chunk_size,
    overlap,
    start,         \* loop variable of the window-cutting loop
    chunks,        \* list of window substrings
    cuts,          \* ghost: <<start, end>> of each window appended to chunks
    i,             \* index of the next window to process (0-based, enumerate)
    offset,        \* local computed for windows after the first (never read)
    all_entities,  \* the merged list
    chunk_entities,\* the list the latest predict_entities call returned
    calls,         \* ghost: arguments of each predict_entities call, in order
    first_entities,\* ghost: the list the first predict_entities call returned
    result,        \* the returned list
    \* ---- highlight_entities_in_text / process_example / main
    entities,      \* the entity list argument
    entity_styles, \* label -> style
    positions,     \* start offset -> list of <<end, entity_text, entity_type>>
    k,             \* index into sorted(positions.keys())
    rich_text,     \* list of appended fragments
    last_end,
    entities_by_type,
    entity_counts

xvars == <<entity_types, chunk_size, overlap, start, chunks, cuts, i, offset,
           all_entities, chunk_entities, calls, first_entities, result>>
rvars == <<entities, entity_styles, positions, k, rich_text, last_end,
           entities_by_type, entity_counts>>
vars == <<pc, text, xvars, rvars>>

NoFn == [x \in {} |-> 0]

\* values of the variables a specification does not use
IdleExtract ==
    /\ entity_types = {}
    /\ chunk_size = 0
    /\ overlap = 0
    /\ start = 0
    /\ chunks = <<>>
    /\ cuts = <<>>
    /\ i = 0
    /\ offset = 0
    /\ all_entities = <<>>
    /\ chunk_entities = <<>>
    /\ calls = <<>>
    /\ first_entities = <<>>
    /\ result = <<>>

IdleRender ==
    /\ entities = <<>>
    /\ entity_styles = NoFn
    /\ positions = NoFn
    /\ k = 0
    /\ rich_text = <<>>
    /\ last_end = 0
    /\ entities_by_type = NoFn
    /\ entity_counts = NoFn

\* ====================================================== process_long_text

\* line 27
IsShort(t, cs) == Len(t) <= cs

\* line 28: the pass-through returns the model's list as it is
DirectDedup(returned) ==
    LET F[n \in 0..Len(returned)] ==
            IF n = 0 THEN <<>>
            ELSE IF returned[n] \in Range(F[n - 1]) THEN F[n - 1]
                 ELSE Append(F[n - 1], returned[n])
    IN  F[Len(returned)]

DirectResult(returned) == returned

\* line 34
WindowEnd(s, cs, t) == Min(s + cs, Len(t))

\* line 36
NextStartNoOverlap(e, ov, t) == e

NextStartOffByOne(e, ov, t) == IF e < Len(t) THEN e - ov - 1 ELSE e

NextStartDropTail(e, ov, t) == IF e + ov < Len(t) THEN e - ov ELSE Len(t)

NextStart(e, ov, t) == IF e < Len(t) THEN e - ov ELSE e

\* lines 46-48
PrevOffset(prev, ov) ==
    LET found == RFind(prev, " ", 0, Len(prev) - ov)
    IN  IF found = -1 THEN Len(prev) - ov ELSE found

\* lines 53-60
IsDuplicateTextOnly(entity, seen) ==
    \E n \in 1..Len(seen) : entity.text = seen[n].text

IsDuplicateAdjacent(entity, seen) ==
    /\ Len(seen) > 0
    /\ entity.text = seen[Len(seen)].text
    /\ entity.label = seen[Len(seen)].label

IsDuplicate(entity, seen) ==
    \E n \in 1..Len(seen) :
        entity.text = seen[n].text /\ entity.label = seen[n].label

\* lines 51-63: the loop over one later window's entities
RECURSIVE MergeLater(_, _)
MergeLater(seen, ents) ==
    IF ents = <<>> THEN seen
    ELSE MergeLater(IF IsDuplicate(Head(ents), seen)
                        THEN seen
                        ELSE Append(seen, Head(ents)),
                    Tail(ents))

\* lines 45-65: what one iteration of the window loop does to all_entities
MergeChunk(idx, seen, ents) ==
    IF idx > 0 THEN MergeLater(seen, ents)
    ELSE seen \o ents

InitExtract ==
    /\ pc = "entry"
    /\ text \in LongTexts
    /\ entity_types \in (SUBSET Labels) \ {{}}
    /\ chunk_size \in 1..MaxChunk
    /\ overlap \in 0..(chunk_size - 1)
    /\ start = 0
    /\ chunks = <<>>
    /\ cuts = <<>>
    /\ i = 0
    /\ offset = 0
    /\ all_entities = <<>>
    /\ chunk_entities = <<>>
    /\ calls = <<>>
    /\ first_entities = <<>>
    /\ result = <<>>
    /\ IdleRender

\* lines 27-28
PassThrough ==
    /\ pc = "entry"
    /\ IsShort(text, chunk_size)
    /\ \E returned \in Predictions(entity_types) :
          /\ calls' = Append(calls, [text |-> text, labels |-> entity_types])
          /\ first_entities' = returned
          /\ result' = DirectResult(returned)
    /\ pc' = "done"
    /\ UNCHANGED <<text, entity_types, chunk_size, overlap, start, chunks, cuts,
                   i, offset, all_entities, chunk_entities, rvars>>

\* lines 27, 31-32
EnterChunking ==
    /\ pc = "entry"
    /\ ~IsShort(text, chunk_size)
    /\ chunks' = <<>>
    /\ cuts' = <<>>
    /\ start' = 0
    /\ pc' = "cut"
    /\ UNCHANGED <<text, entity_types, chunk_size, overlap, i, offset,
                   all_entities, chunk_entities, calls, first_entities, result,
                   rvars>>

\* lines 33-36: one iteration of the while loop
CutChunk ==
    /\ pc = "cut"
    /\ start < Len(text)
    /\ LET end == WindowEnd(start, chunk_size, text)
       IN  /\ chunks' = Append(chunks, Slice(text, start, end))
           /\ cuts' = Append(cuts, <<start, end>>)
           /\ start' = NextStart(end, overlap, text)
    /\ UNCHANGED <<pc, text, entity_types, chunk_size, overlap, i, offset,
                   all_entities, chunk_entities, calls, first_entities, result,
                   rvars>>

\* lines 33, 39: the while loop exits
CutDone ==
    /\ pc = "cut"
    /\ ~(start < Len(text))
    /\ all_entities' = <<>>
    /\ i' = 0
    /\ pc' = "predict"
    /\ UNCHANGED <<text, entity_types, chunk_size, overlap, start, chunks, cuts,
                   offset, chunk_entities, calls, first_entities, result, rvars>>

\* lines 40-65: one iteration of the for loop
ProcessChunk ==
    /\ pc = "predict"
    /\ i < Len(chunks)
    /\ \E returned \in Predictions(entity_types) :
          /\ calls' = Append(calls, [text |-> chunks[i + 1],
                                     labels |-> entity_types])
          /\ chunk_entities' = returned
          /\ first_entities' = IF calls = <<>> THEN returned ELSE first_entities
          /\ all_entities' = MergeChunk(i, all_entities, returned)
    /\ offset' = IF i > 0 THEN PrevOffset(chunks[i], overlap) ELSE offset
    /\ i' = i + 1
    /\ UNCHANGED <<pc, text, entity_types, chunk_size, overlap, start, chunks,
                   cuts, result, rvars>>

\* line 67
ReturnMerged ==
    /\ pc = "predict"
    /\ ~(i < Len(chunks))
    /\ result' = all_entities
    /\ pc' = "done"
    /\ UNCHANGED <<text, entity_types, chunk_size, overlap, start, chunks, cuts,
                   i, offset, all_entities, chunk_entities, calls, first_entities,
                   rvars>>

NextExtract ==
    \/ PassThrough
    \/ EnterChunking
    \/ CutChunk
    \/ CutDone
    \/ ProcessChunk
    \/ ReturnMerged

ExtractSpec == InitExtract /\ [][NextExtract]_vars

\* process_long_text up to the end of its window-cutting loop
NextCut ==
    \/ PassThrough
    \/ EnterChunking
    \/ CutChunk
    \/ CutDone

\* the function is sequential code: a step that can be taken is taken
CutFairSpec == InitExtract /\ [][NextCut]_vars /\ WF_vars(NextCut)

\* ------------------------------------------- claims on process_long_text

Pair(entity) == <<entity.text, entity.label>>

IsPrefix(s, t) == Len(s) <= Len(t) /\ SubSeq(t, 1, Len(s)) = s

CeilDiv(a, b) == (a + b - 1) \div b

Chunked == ~(Len(text) <= chunk_size)

HasRepeat(s) ==
    \E m, n \in 1..Len(s) : m < n /\ Pair(s[m]) = Pair(s[n])

\* C1 as stated: the list returned on the chunked path never holds two
\* entities with the same (text, label) pair.
C1_NoRepeatedPair ==
    (pc = "done" /\ Chunked) => ~HasRepeat(result)

\* C1 as amended: the list returned on the chunked path starts with the first
\* window's list as the model reported it, and two entities of the returned
\* list share a (text, label) pair only if both lie in that first-window part.
C1_RepeatsOnlyInFirstWindow ==
    (pc = "done" /\ Chunked) =>
        /\ IsPrefix(first_entities, result)
        /\ \A m, n \in 1..Len(result) :
              (m < n /\ Pair(result[m]) = Pair(result[n]))
                  => n <= Len(first_entities)

C1_Witness ==
    /\ pc = "done"
    /\ Chunked
    /\ Len(calls) >= 2
    /\ HasRepeat(first_entities)
    /\ Len(result) > Len(first_entities)
    /\ \E n \in 1..Len(chunk_entities) : chunk_entities[n] \in Range(result)

\* C2: on the pass-through path predict_entities is called exactly once, with
\* the whole text and the given labels, and its list is returned unchanged.
C2_PassThrough ==
    ~Chunked =>
        /\ Len(calls) <= 1
        /\ pc = "done" =>
              /\ Len(calls) = 1
              /\ calls[1] = [text |-> text, labels |-> entity_types]
              /\ result = first_entities

C2_Witness ==
    /\ pc = "done"
    /\ ~Chunked
    /\ Len(text) = chunk_size
    /\ HasRepeat(result)

\* C3: the first window starts at 0, no window is longer than chunk_size,
\* starts strictly increase, each later window starts at the previous end
\* minus overlap, and consecutive windows share exactly overlap characters.
C3_Windows ==
    Chunked =>
        /\ Len(chunks) = Len(cuts)
        /\ Len(cuts) >= 1 => cuts[1][1] = 0
        /\ \A n \in 1..Len(cuts) :
              /\ cuts[n][2] - cuts[n][1] <= chunk_size
              /\ Len(chunks[n]) = cuts[n][2] - cuts[n][1]
              /\ \A j \in 1..Len(chunks[n]) :
                    chunks[n][j] = text[cuts[n][1] + j]
        /\ \A n \in 1..(Len(cuts) - 1) :
              /\ cuts[n + 1][1] > cuts[n][1]
              /\ cuts[n + 1][1] = cuts[n][2] - overlap
              /\ Cardinality((cuts[n][1]..(cuts[n][2] - 1))
                     \cap (cuts[n + 1][1]..(cuts[n + 1][2] - 1))) = overlap

C3_Witness ==
    /\ pc = "predict"
    /\ Len(cuts) >= 3
    /\ overlap >= 1
    /\ cuts[Len(cuts)][2] - cuts[Len(cuts)][1] = chunk_size

\* C4: the number of windows, and of predict_entities calls, is
\* ceil((len(text) - overlap) / (chunk_size - overlap)).
C4_WindowCount ==
    (Chunked /\ pc \in {"predict", "done"}) =>
        /\ Len(chunks) = CeilDiv(Len(text) - overlap, chunk_size - overlap)
        /\ pc = "done" => Len(calls) = Len(chunks)

C4_Witness ==
    /\ pc = "done"
    /\ Chunked
    /\ overlap >= 1
    /\ Len(chunks) = 3
    /\ Len(calls) = 3

\* the entities of ents that a later window contributes: those whose pair is
\* neither in seen nor earlier in ents, in the order of ents
NovelIdx(seen, ents) ==
    {n \in 1..Len(ents) :
        /\ \A m \in 1..Len(seen) : Pair(seen[m]) # Pair(ents[n])
        /\ \A m \in 1..(n - 1) : Pair(ents[m]) # Pair(ents[n])}

RECURSIVE PickIdx(_, _, _)
PickIdx(ents, idx, n) ==
    IF n > Len(ents) THEN <<>>
    ELSE (IF n \in idx THEN <<ents[n]>> ELSE <<>>) \o PickIdx(ents, idx, n + 1)

Novel(seen, ents) == PickIdx(ents, NovelIdx(seen, ents), 1)

C5_Step ==
    (Chunked /\ Len(calls') = Len(calls) + 1) =>
        /\ calls'[Len(calls')].text = chunks[Len(calls')]
        /\ all_entities' =
              IF Len(calls) = 0 THEN chunk_entities'
              ELSE all_entities \o Novel(all_entities, chunk_entities')

C5_AppendOnly == IsPrefix(all_entities, all_entities')

C5_Returned ==
    (pc = "done" /\ Chunked) => result = all_entities

\* C5: windows go to the model in ascending order; the merged list is the
\* first window's list followed, window by window, by exactly the entities
\* whose pair is not yet in the merged list when examined, in reported order;
\* nothing appended is ever removed or reordered.
C5_Merge == [](C5_Returned) /\ [][C5_Step /\ C5_AppendOnly]_vars

C5_Witness ==
    /\ pc = "done"
    /\ Chunked
    /\ Len(calls) >= 3
    /\ Len(chunk_entities) = 2
    /\ chunk_entities[1] \in Range(first_entities)
    /\ chunk_entities[2] \notin Range(first_entities)
    /\ result[Len(result)] = chunk_entities[2]

Covered ==
    /\ Len(cuts) >= 1
    /\ cuts[Len(cuts)][2] = Len(text)
    /\ \A p \in 0..(Len(text) - 1) :
          \E n \in 1..Len(cuts) : cuts[n][1] <= p /\ p < cuts[n][2]

\* C9: the window-cutting loop terminates, the last window ends at len(text)
\* and every offset of the text lies in some window.
C9_CutTerminatesAndCovers ==
    /\ <>(pc \in {"predict", "done"})
    /\ [](pc = "predict" => Covered)

C9_Witness ==
    /\ pc = "predict"
    /\ Len(cuts) >= 2
    /\ overlap = 0
    /\ cuts[Len(cuts)][2] - cuts[Len(cuts)][1] < chunk_size

\* ============================================= highlight_entities_in_text

Alphabet == {"a", "b"}

Texts == SeqsUpTo(Alphabet, MaxRenderLen)

\* surface texts of the entities handed to the renderer
EntTexts == {<<"a">>, <<"a", "b">>, <<"b", "a">>}

EntityLists == SeqsUpTo([text : EntTexts, label : Labels], MaxEnts)

\* lines 73-85
styles ==
    <<"bold red", "bold blue", "bold green", "bold yellow", "bold magenta",
      "bold cyan", "bold purple", "bold white on red", "bold white on blue",
      "bold white on green", "bold white on magenta">>

\* line 91
LabelsOf(ents) == {ents[n].label : n \in 1..Len(ents)}

\* the orders in which a Python set of these labels may be iterated
Orders(S) ==
    {o \in [1..Cardinality(S) -> S] : \A l \in S : \E n \in DOMAIN o : o[n] = l}

\* lines 95-97, for one iteration order of the set
StylesFor(order) ==
    [l \in Range(order) |->
        LET n == CHOOSE m \in DOMAIN order : order[m] = l
        IN  styles[((n - 1) % Len(styles)) + 1]]

\* line 108: does the literal pattern match t at 0-based offset p
MatchesAtFirstChar(pat, t, p) ==
    /\ p + 1 <= Len(t)
    /\ t[p + 1] = pat[1]

MatchesAt(pat, t, p) ==
    /\ p + Len(pat) <= Len(t)
    /\ \A j \in 1..Len(pat) : t[p + j] = pat[j]

\* line 108: re.finditer(re.escape(pat), t): the spans of the leftmost
\* non-overlapping literal matches, scanning from offset p
RECURSIVE FindIter(_, _, _)
FindIter(pat, t, p) ==
    IF p > Len(t) THEN <<>>
    ELSE IF MatchesAt(pat, t, p)
         THEN <<<<p, p + Len(pat)>>>>
                  \o FindIter(pat, t, IF Len(pat) = 0 THEN p + 1 ELSE p + Len(pat))
         ELSE FindIter(pat, t, p + 1)

\* line 110 for each match of one entity, in match order
RECURSIVE AddMatches(_, _, _)
AddMatches(pos, entity, spans) ==
    IF spans = <<>> THEN pos
    ELSE LET st == Head(spans)[1]
             occ == <<Head(spans)[2], entity.text, entity.label>>
             old == IF st \in DOMAIN pos THEN pos[st] ELSE <<>>
         IN  AddMatches([x \in DOMAIN pos \cup {st} |->
                            IF x = st THEN Append(old, occ) ELSE pos[x]],
                        entity, Tail(spans))

\* lines 103-110
RECURSIVE FindAll(_, _, _)
FindAll(pos, t, ents) ==
    IF ents = <<>> THEN pos
    ELSE FindAll(AddMatches(pos, Head(ents), FindIter(Head(ents).text, t, 0)),
                 t, Tail(ents))

\* line 117: sorted(positions.keys())
RECURSIVE SortedSeq(_)
SortedSeq(S) ==
    IF S = {} THEN <<>>
    ELSE LET least == CHOOSE x \in S : \A y \in S : x <= y
         IN  <<least>> \o SortedSeq(S \ {least})

\* lines 123-124: first element of the stable sort by end offset
ShortestAt(occs) ==
    occs[CHOOSE n \in 1..Len(occs) :
            /\ \A m \in 1..Len(occs) : occs[m][1] >= occs[n][1]
            /\ \A m \in 1..(n - 1) : occs[m][1] # occs[n][1]]

LongestAt(occs) ==
    occs[CHOOSE n \in 1..Len(occs) :
            /\ \A m \in 1..Len(occs) : occs[m][1] <= occs[n][1]
            /\ \A m \in 1..(n - 1) : occs[m][1] # occs[n][1]]

\* line 127
StyleOf(entity_type) ==
    IF entity_type \in DOMAIN entity_styles THEN entity_styles[entity_type]
    ELSE "bold"

\* a fragment appended to rich_text: the string and its style ("" when none
\* is given); ghost fields: the offsets it was sliced at and, for a styled
\* fragment, the entity text and label it was emitted for
Plain(lo, hi) ==
    [str |-> Slice(text, lo, hi), style |-> "", start |-> lo,
     end |-> Min(hi, Len(text)), entity |-> <<>>]

Styled(lo, occ) ==
    [str |-> Slice(text, lo, occ[1]), style |-> StyleOf(occ[3]), start |-> lo,
     end |-> occ[1], entity |-> <<occ[2], occ[3]>>]

\* lines 173-175
RECURSIVE GroupByType(_, _)
GroupByType(groups, ents) ==
    IF ents = <<>> THEN groups
    ELSE LET l == Head(ents).label
             old == IF l \in DOMAIN groups THEN groups[l] ELSE <<>>
         IN  GroupByType([x \in DOMAIN groups \cup {l} |->
                             IF x = l THEN Append(old, Head(ents).text)
                             ELSE groups[x]],
                         Tail(ents))

\* lines 238-241
RECURSIVE CountByType(_, _)
CountByType(counts, ents) ==
    IF ents = <<>> THEN counts
    ELSE LET l == Head(ents).label
             old == IF l \in DOMAIN counts THEN counts[l] ELSE 0
         IN  CountByType([x \in DOMAIN counts \cup {l} |->
                             IF x = l THEN old + 1 ELSE counts[x]],
                         Tail(ents))

InitRender ==
    /\ pc = "styles"
    /\ text \in Texts
    /\ entities \in EntityLists
    /\ entity_styles = NoFn
    /\ positions = NoFn
    /\ k = 0
    /\ rich_text = <<>>
    /\ last_end = 0
    /\ entities_by_type = NoFn
    /\ entity_counts = NoFn
    /\ IdleExtract

\* lines 91-97
AssignStyles ==
    /\ pc = "styles"
    /\ \E order \in Orders(LabelsOf(entities)) :
          entity_styles' = StylesFor(order)
    /\ pc' = "find"
    /\ UNCHANGED <<text, entities, positions, k, rich_text, last_end,
                   entities_by_type, entity_counts, xvars>>

\* lines 100-114
FindOccurrences ==
    /\ pc = "find"
    /\ positions' = FindAll(NoFn, text, entities)
    /\ rich_text' = <<>>
    /\ last_end' = 0
    /\ k' = 0
    /\ pc' = "emit"
    /\ UNCHANGED <<text, entities, entity_styles, entities_by_type,
                   entity_counts, xvars>>

\* lines 117-130: one iteration of the loop over the sorted start offsets
EmitSpan ==
    /\ pc = "emit"
    /\ k < Cardinality(DOMAIN positions)
    /\ LET st == SortedSeq(DOMAIN positions)[k + 1]
           occ == LongestAt(positions[st])
           before == IF st > last_end THEN <<Plain(last_end, st)>> ELSE <<>>
       IN  /\ rich_text' = rich_text \o before \o <<Styled(st, occ)>>
           /\ last_end' = occ[1]
    /\ k' = k + 1
    /\ UNCHANGED <<pc, text, entities, entity_styles, positions,
                   entities_by_type, entity_counts, xvars>>

\* lines 117, 133-134: the loop is over; the remaining text is appended
EmitTail ==
    /\ pc = "emit"
    /\ ~(k < Cardinality(DOMAIN positions))
    /\ rich_text' = IF last_end < Len(text)
                        THEN Append(rich_text, Plain(last_end, Len(text)))
                        ELSE rich_text
    /\ pc' = "group"
    /\ UNCHANGED <<text, entities, entity_styles, positions, k, last_end,
                   entities_by_type, entity_counts, xvars>>

\* process_example, lines 173-175
GroupEntities ==
    /\ pc = "group"
    /\ entities_by_type' = GroupByType(NoFn, entities)
    /\ pc' = "count"
    /\ UNCHANGED <<text, entities, entity_styles, positions, k, rich_text,
                   last_end, entity_counts, xvars>>

\* main, lines 226-241, for a run over this one example
CountEntities ==
    /\ pc = "count"
    /\ entity_counts' = CountByType(NoFn, <<>> \o entities)
    /\ pc' = "rendered"
    /\ UNCHANGED <<text, entities, entity_styles, positions, k, rich_text,
                   last_end, entities_by_type, xvars>>

NextRender ==
    \/ AssignStyles
    \/ FindOccurrences
    \/ EmitSpan
    \/ EmitTail
    \/ GroupEntities
    \/ CountEntities

RenderSpec == InitRender /\ [][NextRender]_vars

\* ---------------------------------- claims on highlight_entities_in_text

IsStyled(frag) == frag.style # ""

StyledIdx == {n \in 1..Len(rich_text) : IsStyled(rich_text[n])}

StyledAt(st) == {n \in StyledIdx : rich_text[n].start = st}

EmitOver == pc \in {"group", "count", "rendered"}

\* the text occurs literally somewhere in t
Occurs(pat, t) ==
    \E p \in 0..(Len(t) - Len(pat)) :
        \A j \in 1..Len(pat) : t[p + j] = pat[j]

RECURSIVE Concat(_)
Concat(frags) ==
    IF frags = <<>> THEN <<>> ELSE Head(frags).str \o Concat(Tail(frags))

RECURSIVE Sum(_, _)
Sum(f, S) ==
    IF S = {} THEN 0
    ELSE LET x == CHOOSE y \in S : TRUE IN f[x] + Sum(f, S \ {x})

\* C6: for every start offset holding occurrences, exactly one styled span is
\* emitted at that offset, and it runs to the largest end offset among the
\* occurrences starting there.
C6_LongestAtOffset ==
    \A st \in DOMAIN positions :
        /\ Cardinality(StyledAt(st)) <= 1
        /\ EmitOver => Cardinality(StyledAt(st)) = 1
        /\ \A n \in StyledAt(st) :
              /\ \A m \in 1..Len(positions[st]) :
                    positions[st][m][1] <= rich_text[n].end
              /\ \E m \in 1..Len(positions[st]) :
                    /\ positions[st][m][1] = rich_text[n].end
                    /\ positions[st][m][2] = rich_text[n].entity[1]
              /\ rich_text[n].str = SubSeq(text, st + 1, rich_text[n].end)

C6_Witness ==
    /\ pc = "rendered"
    /\ \E st \in DOMAIN positions :
          /\ \E m, n \in 1..Len(positions[st]) :
                positions[st][m][1] < positions[st][n][1]
          /\ positions[st][1][1] < positions[st][Len(positions[st])][1]
          /\ \E n \in StyledAt(st) : rich_text[n].end - st = 2

\* C7 as stated: no styled span starts inside a span emitted before it, so
\* styled spans do not overlap and their starts and ends strictly increase.
C7_NoSpanInsideAccepted ==
    \A m, n \in StyledIdx :
        m < n =>
            /\ rich_text[m].end <= rich_text[n].start
            /\ rich_text[m].start < rich_text[n].start
            /\ rich_text[m].end < rich_text[n].end

\* C8: an entity whose text does not occur in the text gets no styled span,
\* is listed under its label in the grouping and counted under its label;
\* the per-label counts add up to the number of entities.
C8_AbsentEntity ==
    /\ \A n \in 1..Len(entities) :
          ~Occurs(entities[n].text, text) =>
              /\ \A m \in StyledIdx :
                    rich_text[m].entity[1] # entities[n].text
              /\ \A st \in DOMAIN positions : \A m \in 1..Len(positions[st]) :
                    positions[st][m][2] # entities[n].text
    /\ pc = "rendered" =>
          /\ \A n \in 1..Len(entities) :
                /\ entities[n].label \in DOMAIN entities_by_type
                /\ Cardinality({m \in 1..Len(entities_by_type[entities[n].label]) :
                       entities_by_type[entities[n].label][m] = entities[n].text})
                   = Cardinality({m \in 1..Len(entities) : entities[m] = entities[n]})
                /\ entities[n].label \in DOMAIN entity_counts
                /\ entity_counts[entities[n].label]
                   = Cardinality({m \in 1..Len(entities) :
                                     entities[m].label = entities[n].label})
          /\ Sum(entity_counts, DOMAIN entity_counts) = Len(entities)

C8_Witness ==
    /\ pc = "rendered"
    /\ Len(entities) = 2
    /\ ~Occurs(entities[1].text, text)
    /\ Occurs(entities[2].text, text)
    /\ entities[1].label = entities[2].label
    /\ StyledIdx # {}

\* C10 as stated: the appended fragments, in order, concatenate to the text.
C10_FragmentsRebuildText ==
    EmitOver => Concat(rich_text) = text

====
